---- MODULE Spec2Model ----
(***************************************************************************)
(* Payment-notification relay (express server): create-payment,            *)
(* yoomoney-notify, confirm-payment, notify-campaign and the Telegram send. *)
(*                                                                         *)
(* JavaScript strings are sequences of one-character strings, so that the  *)
(* '&'-join of the signature, Number() and parseFloat() are computed, not  *)
(* assumed.  `undefined` is the one-element tuple Undefined, which is no   *)
(* string (its element is longer than one character).                      *)
(* JavaScript numbers are records: NaN, +/-Infinity, or the finite decimal *)
(* m / 10^d.                                                               *)
(***************************************************************************)
EXTENDS Integers, Sequences, FiniteSets, TLC

VARIABLES
    YOOMONEY_WALLET,   \* process.env.YOOMONEY_WALLET || ''
    YOOMONEY_SECRET,   \* process.env.YOOMONEY_SECRET || ''
    TG_TOKEN,          \* process.env.TELEGRAM_BOT_TOKEN || ''
    TG_CHAT,           \* process.env.TELEGRAM_CHAT_ID || ''
    orders,            \* the Map label -> { amountRub, paid }
    resp,              \* the response written by the last handled request
    tgInFlight,        \* Telegram sends started and not yet completed
    tgLog,             \* the last line sendTelegram or its callbacks logged
    sig                \* the verifyYooMoneySignature experiment (SpecSig only)

vars == <<YOOMONEY_WALLET, YOOMONEY_SECRET, TG_TOKEN, TG_CHAT,
          orders, resp, tgInFlight, tgLog, sig>>

(***************************** bounds **************************************)
\* Date.now() takes the values 1..MaxTime
MaxTime == 1
\* at most this many orders are in the table at once
MaxOrders == 2
\* at most this many Telegram sends are in flight at once
MaxInFlight == 1
\* SpecSig changes a notification at most this many times
MaxSigCalls == 2

(************************ JavaScript values ********************************)
Undefined == <<"undefined">>
EmptyStr == <<>>

\* ToBoolean of a string-or-undefined value: '' and undefined are falsy
Truthy(v) == v # Undefined /\ v # EmptyStr

\* a || b on string-or-undefined values
Or(a, b) == IF Truthy(a) THEN a ELSE b

\* Array.prototype.join renders undefined (and null) as the empty string
JoinElem(v) == IF v = Undefined THEN EmptyStr ELSE v

RECURSIVE Join(_, _)
Join(arr, sep) ==
    IF Len(arr) = 0 THEN EmptyStr
    ELSE IF Len(arr) = 1 THEN JoinElem(arr[1])
    ELSE JoinElem(arr[1]) \o sep \o Join(Tail(arr), sep)

Digits == <<"0", "1", "2", "3", "4", "5", "6", "7", "8", "9">>
DigitValues ==
    "0" :> 0 @@ "1" :> 1 @@ "2" :> 2 @@ "3" :> 3 @@ "4" :> 4 @@
    "5" :> 5 @@ "6" :> 6 @@ "7" :> 7 @@ "8" :> 8 @@ "9" :> 9
IsDigit(c) == c \in DOMAIN DigitValues
DigitVal(c) == DigitValues[c]

RECURSIVE Pow10(_)
Pow10(d) == IF d = 0 THEN 1 ELSE 10 * Pow10(d - 1)

NaN == [k |-> "NaN", m |-> 0, d |-> 0]
Infinity == [k |-> "Infinity", m |-> 1, d |-> 0]
NegInfinity == [k |-> "Infinity", m |-> -1, d |-> 0]
\* the finite number m / 10^d
Fin(m, d) == [k |-> "fin", m |-> m, d |-> d]
Zero == Fin(0, 0)

\* ToBoolean of a number: NaN and 0 are falsy
NumTruthy(x) == x.k = "Infinity" \/ (x.k = "fin" /\ x.m # 0)
NumOr(x, y) == IF NumTruthy(x) THEN x ELSE y

\* Math.floor
Floor(x) == IF x.k = "fin" THEN Fin(x.m \div Pow10(x.d), 0) ELSE x

\* x < n for an integer n (false for NaN)
NumLess(x, n) ==
    CASE x.k = "NaN" -> FALSE
      [] x.k = "Infinity" -> x.m < 0
      [] OTHER -> x.m < n * Pow10(x.d)

\* String(n) for a natural number n
RECURSIVE NatToStr(_)
NatToStr(n) ==
    IF n < 10 THEN <<Digits[n + 1]>>
    ELSE NatToStr(n \div 10) \o <<Digits[(n % 10) + 1]>>

\* the number of consecutive decimal digits of s from position i on
RECURSIVE DigitsLen(_, _)
DigitsLen(s, i) ==
    IF i <= Len(s) /\ IsDigit(s[i]) THEN 1 + DigitsLen(s, i + 1) ELSE 0

\* the value of the n digits of s from position i on
RECURSIVE DigitsVal(_, _, _)
DigitsVal(s, i, n) ==
    IF n = 0 THEN 0
    ELSE 10 * DigitsVal(s, i, n - 1) + DigitVal(s[i + n - 1])

InfinityStr == <<"I", "n", "f", "i", "n", "i", "t", "y">>
HasAt(s, i, w) == i + Len(w) - 1 <= Len(s) /\ SubSeq(s, i, i + Len(w) - 1) = w

\* The longest prefix of s that is a StrDecimalLiteral
\* ([+-] (Infinity | digits [. digits] | . digits)): its length (0 when there
\* is none) and its value.
DecimalPrefix(s) ==
    LET signLen == IF Len(s) >= 1 /\ s[1] \in {"+", "-"} THEN 1 ELSE 0
        neg == signLen = 1 /\ s[1] = "-"
        p == signLen + 1
        n1 == DigitsLen(s, p)
        dot == p + n1 <= Len(s) /\ s[p + n1] = "."
        n2 == IF dot THEN DigitsLen(s, p + n1 + 1) ELSE 0
        mant == DigitsVal(s, p, n1) * Pow10(n2) + DigitsVal(s, p + n1 + 1, n2)
    IN  IF HasAt(s, p, InfinityStr)
        THEN [len |-> signLen + Len(InfinityStr),
              val |-> IF neg THEN NegInfinity ELSE Infinity]
        ELSE IF n1 + n2 = 0 THEN [len |-> 0, val |-> NaN]
        ELSE [len |-> signLen + n1 + (IF dot THEN 1 + n2 ELSE 0),
              val |-> Fin(IF neg THEN 0 - mant ELSE mant, n2)]

\* Number(v): '' is 0, a string that is a decimal literal as a whole is its
\* value, everything else (undefined included) is NaN
Number(v) ==
    IF v = Undefined THEN NaN
    ELSE IF v = EmptyStr THEN Zero
    ELSE LET r == DecimalPrefix(v)
         IN  IF r.len = Len(v) THEN r.val ELSE NaN

\* parseFloat(v): the value of the longest decimal-literal prefix, NaN when
\* there is none (undefined is parsed as the text 'undefined')
parseFloat(v) ==
    IF v = Undefined THEN NaN ELSE DecimalPrefix(v).val


(************************** configuration **********************************)
\* the values the environment variables take ('' when unset)
WalletValues == {EmptyStr, <<"4", "1">>}
SecretValues == {EmptyStr, <<"s">>}
TokenValues == {EmptyStr, <<"b">>}
ChatValues == {EmptyStr, <<"9">>}

(***************************** orders **************************************)
EmptyMap == [x \in {} |-> x]
MapSet(m, key, v) == [x \in DOMAIN m \cup {key} |-> IF x = key THEN v ELSE m[x]]
MapDelete(m, key) == [x \in DOMAIN m \ {key} |-> m[x]]
MapHas(m, key) == key \in DOMAIN m

\* 'pay_' + Date.now() + '_' + Math.random().toString(36).slice(2, 8)
MkLabel(t, rnd) == <<"p", "a", "y", "_">> \o NatToStr(t) \o <<"_">> \o rnd

(**************************** responses ************************************)
NoResponse == [route |-> "none", status |-> 0, sent |-> 0, body |-> [none |-> TRUE]]
\* res.status(status).json(body) / res.status(status).send(text): one write
Response(route, status, body) ==
    [route |-> route, status |-> status, sent |-> 1, body |-> body]

CreateRoute == "POST /api/create-payment"
NotifyRoute == "POST /api/yoomoney-notify"
ConfirmRoute == "GET /api/confirm-payment"
CampaignRoute == "POST /api/notify-campaign"

(**************************** signature ************************************)
\* crypto.createHash('sha1').update(str).digest('hex'), as an injective
\* function of the text
sha1hex(str) == <<"#">> \o str

\* the '&'-joined text verifyYooMoneySignature hashes, for a given secret
SignatureString(params, secret) ==
    Join(<<params.notification_type,
           params.operation_id,
           params.amount,
           params.currency,
           params.datetime,
           Or(params.sender, EmptyStr),
           params.codepro,
           secret,
           Or(params.label, EmptyStr)>>, <<"&">>)

\* verifyYooMoneySignature with the label left out of the hashed text
verifyYooMoneySignature_NoLabel(params) ==
    sha1hex(Join(<<params.notification_type, params.operation_id, params.amount,
                   params.currency, params.datetime, Or(params.sender, EmptyStr),
                   params.codepro, YOOMONEY_SECRET>>, <<"&">>)) = params.sha1_hash

verifyYooMoneySignature(params) ==
    sha1hex(SignatureString(params, YOOMONEY_SECRET)) = params.sha1_hash

(***************************** handlers ************************************)
\* create-payment with the wallet check made before the amount check
CreatePayment_WalletFirst(amount, t, rnd) ==
    LET amountRub == Floor(NumOr(Number(amount), Zero))
        label == MkLabel(t, rnd)
    IN  /\ IF ~Truthy(YOOMONEY_WALLET)
           THEN /\ resp' = Response(CreateRoute, 500, [error |-> "YOOMONEY_WALLET not set"])
                /\ orders' = orders
           ELSE IF NumLess(amountRub, 1)
           THEN /\ resp' = Response(CreateRoute, 400, [error |-> "amount below 1"])
                /\ orders' = orders
           ELSE /\ orders' = MapSet(orders, label, [amountRub |-> amountRub, paid |-> FALSE])
                /\ resp' = Response(CreateRoute, 200,
                       [paymentUrl |-> [receiver |-> YOOMONEY_WALLET,
                                        sum |-> amountRub, label |-> label],
                        orderId |-> label])
        /\ UNCHANGED <<YOOMONEY_WALLET, YOOMONEY_SECRET, TG_TOKEN, TG_CHAT,
                       tgInFlight, tgLog, sig>>

\* POST /api/create-payment with body.amount = amount; t is what Date.now()
\* returns and rnd what Math.random().toString(36).slice(2, 8) returns
CreatePayment(amount, t, rnd) ==
    LET amountRub == Floor(NumOr(Number(amount), Zero))
        label == MkLabel(t, rnd)
    IN  /\ ~NumLess(amountRub, 1) /\ Truthy(YOOMONEY_WALLET)
               => Cardinality(DOMAIN orders \cup {label}) <= MaxOrders
        /\ IF NumLess(amountRub, 1)
           THEN /\ resp' = Response(CreateRoute, 400, [error |-> "amount below 1"])
                /\ orders' = orders
           ELSE IF ~Truthy(YOOMONEY_WALLET)
           THEN /\ resp' = Response(CreateRoute, 500, [error |-> "YOOMONEY_WALLET not set"])
                /\ orders' = orders
           ELSE /\ orders' = MapSet(orders, label, [amountRub |-> amountRub, paid |-> FALSE])
                /\ resp' = Response(CreateRoute, 200,
                       [paymentUrl |-> [receiver |-> YOOMONEY_WALLET,
                                        sum |-> amountRub, label |-> label],
                        orderId |-> label])
        /\ UNCHANGED <<YOOMONEY_WALLET, YOOMONEY_SECRET, TG_TOKEN, TG_CHAT,
                       tgInFlight, tgLog, sig>>

\* the notify handler without the protection-code check
NotifyOutcome_IgnoresCodepro(body) ==
    IF Truthy(YOOMONEY_SECRET) /\ ~verifyYooMoneySignature(body)
    THEN [resp |-> Response(NotifyRoute, 400, [text |-> "bad signature"]),
          orders |-> orders]
    ELSE LET label == Or(body.label, EmptyStr)
             amount == NumOr(NumOr(parseFloat(body.withdraw_amount),
                                   parseFloat(body.amount)), Zero)
         IN  [orders |->
                  IF Truthy(label) /\ MapHas(orders, label)
                  THEN [orders EXCEPT ![label] =
                          [amountRub |-> NumOr(Floor(amount), orders[label].amountRub),
                           paid |-> TRUE]]
                  ELSE orders,
              resp |-> Response(NotifyRoute, 200, [text |-> "OK"])]

\* the notify handler reading amount before withdraw_amount
NotifyOutcome_AmountFirst(body) ==
    IF Truthy(YOOMONEY_SECRET) /\ ~verifyYooMoneySignature(body)
    THEN [resp |-> Response(NotifyRoute, 400, [text |-> "bad signature"]),
          orders |-> orders]
    ELSE IF body.codepro = <<"t", "r", "u", "e">>
    THEN [resp |-> Response(NotifyRoute, 200, [text |-> "OK"]),
          orders |-> orders]
    ELSE LET label == Or(body.label, EmptyStr)
             amount == NumOr(NumOr(parseFloat(body.amount),
                                   parseFloat(body.withdraw_amount)), Zero)
         IN  [orders |->
                  IF Truthy(label) /\ MapHas(orders, label)
                  THEN [orders EXCEPT ![label] =
                          [amountRub |-> NumOr(Floor(amount), orders[label].amountRub),
                           paid |-> TRUE]]
                  ELSE orders,
              resp |-> Response(NotifyRoute, 200, [text |-> "OK"])]

\* the notify handler storing a paid order when the label is not in the table
NotifyOutcome_Upsert(body) ==
    IF Truthy(YOOMONEY_SECRET) /\ ~verifyYooMoneySignature(body)
    THEN [resp |-> Response(NotifyRoute, 400, [text |-> "bad signature"]),
          orders |-> orders]
    ELSE IF body.codepro = <<"t", "r", "u", "e">>
    THEN [resp |-> Response(NotifyRoute, 200, [text |-> "OK"]),
          orders |-> orders]
    ELSE LET label == Or(body.label, EmptyStr)
             amount == NumOr(NumOr(parseFloat(body.withdraw_amount),
                                   parseFloat(body.amount)), Zero)
         IN  [orders |->
                  IF Truthy(label) /\ MapHas(orders, label)
                  THEN [orders EXCEPT ![label] =
                          [amountRub |-> NumOr(Floor(amount), orders[label].amountRub),
                           paid |-> TRUE]]
                  ELSE IF Truthy(label)
                  THEN MapSet(orders, label,
                              [amountRub |-> Floor(amount), paid |-> TRUE])
                  ELSE orders,
              resp |-> Response(NotifyRoute, 200, [text |-> "OK"])]

\* what the yoomoney-notify handler computes from the body and the table:
\* the response it writes and the table it leaves
NotifyOutcome(body) ==
    IF Truthy(YOOMONEY_SECRET) /\ ~verifyYooMoneySignature(body)
    THEN [resp |-> Response(NotifyRoute, 400, [text |-> "bad signature"]),
          orders |-> orders]
    ELSE IF body.codepro = <<"t", "r", "u", "e">>
    THEN [resp |-> Response(NotifyRoute, 200, [text |-> "OK"]),
          orders |-> orders]
    ELSE LET label == Or(body.label, EmptyStr)
             amount == NumOr(NumOr(parseFloat(body.withdraw_amount),
                                   parseFloat(body.amount)), Zero)
         IN  [orders |->
                  IF Truthy(label) /\ MapHas(orders, label)
                  THEN [orders EXCEPT ![label] =
                          [amountRub |-> NumOr(Floor(amount), orders[label].amountRub),
                           paid |-> TRUE]]
                  ELSE orders,
              resp |-> Response(NotifyRoute, 200, [text |-> "OK"])]

\* POST /api/yoomoney-notify with the given body
YooMoneyNotify(body) ==
    /\ resp' = NotifyOutcome(body).resp
    /\ orders' = NotifyOutcome(body).orders
    /\ UNCHANGED <<YOOMONEY_WALLET, YOOMONEY_SECRET, TG_TOKEN, TG_CHAT,
                   tgInFlight, tgLog, sig>>

\* confirm-payment that removes the order whether it is paid or not
ConfirmPayment_DeletesUnpaid(orderId) ==
    /\ IF ~Truthy(orderId)
       THEN /\ resp' = Response(ConfirmRoute, 400, [error |-> "No orderId"])
            /\ orders' = orders
       ELSE IF ~MapHas(orders, orderId)
       THEN /\ resp' = Response(ConfirmRoute, 404, [error |-> "Order not found"])
            /\ orders' = orders
       ELSE /\ orders' = MapDelete(orders, orderId)
            /\ resp' = IF orders[orderId].paid
                       THEN Response(ConfirmRoute, 200, [amount |-> orders[orderId].amountRub])
                       ELSE Response(ConfirmRoute, 200,
                                [amount |-> Zero,
                                 message |-> "Waiting for YooMoney confirmation..."])
    /\ UNCHANGED <<YOOMONEY_WALLET, YOOMONEY_SECRET, TG_TOKEN, TG_CHAT,
                   tgInFlight, tgLog, sig>>

\* confirm-payment that reports a paid order and keeps it in the table
ConfirmPayment_KeepsPaid(orderId) ==
    /\ IF ~Truthy(orderId)
       THEN resp' = Response(ConfirmRoute, 400, [error |-> "No orderId"])
       ELSE IF ~MapHas(orders, orderId)
       THEN resp' = Response(ConfirmRoute, 404, [error |-> "Order not found"])
       ELSE IF ~orders[orderId].paid
       THEN resp' = Response(ConfirmRoute, 200,
                   [amount |-> Zero, message |-> "Waiting for YooMoney confirmation..."])
       ELSE resp' = Response(ConfirmRoute, 200, [amount |-> orders[orderId].amountRub])
    /\ orders' = orders
    /\ UNCHANGED <<YOOMONEY_WALLET, YOOMONEY_SECRET, TG_TOKEN, TG_CHAT,
                   tgInFlight, tgLog, sig>>

\* confirm-payment that looks the order up before it checks that orderId is given
ConfirmPayment_LookupFirst(orderId) ==
    /\ IF ~MapHas(orders, orderId)
       THEN /\ resp' = Response(ConfirmRoute, 404, [error |-> "Order not found"])
            /\ orders' = orders
       ELSE IF ~orders[orderId].paid
       THEN /\ resp' = Response(ConfirmRoute, 200,
                   [amount |-> Zero, message |-> "Waiting for YooMoney confirmation..."])
            /\ orders' = orders
       ELSE /\ orders' = MapDelete(orders, orderId)
            /\ resp' = Response(ConfirmRoute, 200, [amount |-> orders[orderId].amountRub])
    /\ UNCHANGED <<YOOMONEY_WALLET, YOOMONEY_SECRET, TG_TOKEN, TG_CHAT,
                   tgInFlight, tgLog, sig>>

\* GET /api/confirm-payment?orderId=...
ConfirmPayment(orderId) ==
    /\ IF ~Truthy(orderId)
       THEN /\ resp' = Response(ConfirmRoute, 400, [error |-> "No orderId"])
            /\ orders' = orders
       ELSE IF ~MapHas(orders, orderId)
       THEN /\ resp' = Response(ConfirmRoute, 404, [error |-> "Order not found"])
            /\ orders' = orders
       ELSE IF ~orders[orderId].paid
       THEN /\ resp' = Response(ConfirmRoute, 200,
                   [amount |-> Zero, message |-> "Waiting for YooMoney confirmation..."])
            /\ orders' = orders
       ELSE /\ orders' = MapDelete(orders, orderId)
            /\ resp' = Response(ConfirmRoute, 200, [amount |-> orders[orderId].amountRub])
    /\ UNCHANGED <<YOOMONEY_WALLET, YOOMONEY_SECRET, TG_TOKEN, TG_CHAT,
                   tgInFlight, tgLog, sig>>

(***************************** Telegram ************************************)
\* sendTelegram that starts the request without looking at the configuration
sendTelegram_NoConfigCheck ==
    /\ tgInFlight' = tgInFlight + 1
    /\ tgLog' = tgLog

\* sendTelegram(text): returns at once; when configured, one request to the
\* bot API is left in flight
sendTelegram ==
    IF ~Truthy(TG_TOKEN) \/ ~Truthy(TG_CHAT)
    THEN /\ tgLog' = "Telegram not configured, skipping"
         /\ tgInFlight' = tgInFlight
    ELSE /\ tgInFlight' = tgInFlight + 1
         /\ tgLog' = tgLog

\* POST /api/notify-campaign
NotifyCampaign ==
    /\ Truthy(TG_TOKEN) /\ Truthy(TG_CHAT) => tgInFlight < MaxInFlight
    /\ sendTelegram
    /\ resp' = Response(CampaignRoute, 200, [ok |-> TRUE])
    /\ UNCHANGED <<YOOMONEY_WALLET, YOOMONEY_SECRET, TG_TOKEN, TG_CHAT, orders, sig>>

\* the callbacks of the request sendTelegram left in flight
TgComplete(line) ==
    /\ tgInFlight > 0
    /\ tgInFlight' = tgInFlight - 1
    /\ tgLog' = line
    /\ UNCHANGED <<YOOMONEY_WALLET, YOOMONEY_SECRET, TG_TOKEN, TG_CHAT,
                   orders, resp, sig>>

\* tgRes 'end' with statusCode 200
TgSentOK == TgComplete("Telegram sent OK")
\* tgRes 'end' with another status code
TgErrorStatus == TgComplete("Telegram error")
\* tgReq 'error'
TgRequestFailed == TgComplete("Telegram request failed")

(****************************** inputs *************************************)
Times == 1..MaxTime
RandomSuffixes == {<<"k">>, <<"z">>}
AllLabels == {MkLabel(t, rnd) : t \in Times, rnd \in RandomSuffixes}

\* body.amount of create-payment: missing, 'x', '0', '-3', '0.5', '1', '2.7'
CreateAmounts ==
    {Undefined, <<"x">>, <<"0">>, <<"-", "3">>, <<"0", ".", "5">>, <<"1">>,
     <<"2", ".", "7">>}

\* orderId / label values a client can send
RequestLabels == {Undefined, EmptyStr} \cup AllLabels

NotifyAmounts == {<<"2", ".", "7">>, <<"0">>}
WithdrawAmounts == {Undefined, <<"0", ".", "5">>, <<"3">>, <<"-", "5">>}
Codepros == {<<"f", "a", "l", "s", "e">>, <<"t", "r", "u", "e">>}
ProviderSecret == <<"s">>

NotifyFields ==
    [notification_type : {<<"p">>},
     operation_id : {<<"7">>},
     amount : NotifyAmounts,
     currency : {<<"6", "4", "3">>},
     datetime : {<<"T">>},
     sender : {Undefined},
     codepro : Codepros,
     label : RequestLabels,
     withdraw_amount : WithdrawAmounts]

WithHash(f, h) ==
    [notification_type |-> f.notification_type, operation_id |-> f.operation_id,
     amount |-> f.amount, currency |-> f.currency, datetime |-> f.datetime,
     sender |-> f.sender, codepro |-> f.codepro, label |-> f.label,
     withdraw_amount |-> f.withdraw_amount, sha1_hash |-> h]

\* the notifications: signed by the provider with its secret, or unsigned
NotifyBodies ==
    {WithHash(f, h) : f \in NotifyFields,
                      h \in {Undefined}} \cup
    {WithHash(f, sha1hex(SignatureString(f, ProviderSecret))) : f \in NotifyFields}

\* the inputs the payment endpoints get while the Telegram relay is exercised
FewCreateAmounts == {<<"0">>, <<"1">>, <<"2", ".", "7">>}
FewNotifyBodies ==
    {b \in NotifyBodies :
        /\ b.sha1_hash # Undefined
        /\ b.codepro = <<"f", "a", "l", "s", "e">>
        /\ b.withdraw_amount = Undefined
        /\ b.amount = <<"2", ".", "7">>}

(*************************** specification *********************************)
\* the payment endpoints, Telegram left unconfigured
Init ==
    /\ YOOMONEY_WALLET \in WalletValues
    /\ YOOMONEY_SECRET \in SecretValues
    /\ TG_TOKEN = EmptyStr
    /\ TG_CHAT = EmptyStr
    /\ orders = EmptyMap
    /\ resp = NoResponse
    /\ tgInFlight = 0
    /\ tgLog = "none"
    /\ sig = <<>>

Next ==
    \/ \E amount \in CreateAmounts, t \in Times, rnd \in RandomSuffixes :
           CreatePayment(amount, t, rnd)
    \/ \E body \in NotifyBodies : YooMoneyNotify(body)
    \/ \E orderId \in RequestLabels : ConfirmPayment(orderId)

Spec == Init /\ [][Next]_vars

\* the whole server, every Telegram configuration, a configured wallet and
\* secret
InitTelegram ==
    /\ YOOMONEY_WALLET = <<"4", "1">>
    /\ YOOMONEY_SECRET = ProviderSecret
    /\ TG_TOKEN \in TokenValues
    /\ TG_CHAT \in ChatValues
    /\ orders = EmptyMap
    /\ resp = NoResponse
    /\ tgInFlight = 0
    /\ tgLog = "none"
    /\ sig = <<>>

NextTelegram ==
    \/ \E amount \in FewCreateAmounts, t \in Times, rnd \in RandomSuffixes :
           CreatePayment(amount, t, rnd)
    \/ \E body \in FewNotifyBodies : YooMoneyNotify(body)
    \/ \E orderId \in RequestLabels : ConfirmPayment(orderId)
    \/ NotifyCampaign
    \/ TgSentOK
    \/ TgErrorStatus
    \/ TgRequestFailed

SpecTelegram == InitTelegram /\ [][NextTelegram]_vars

(******************* verifyYooMoneySignature alone **************************)
\* the values each signed field of a notification takes in SpecSig
SigDomain ==
    [notification_type |-> {<<"p">>, <<"q">>},
     operation_id |-> {<<"a">>, <<"a", "&", "a">>},
     amount |-> {<<"a">>, <<"a", "&", "a">>, Undefined, EmptyStr},
     currency |-> {<<"6">>, <<"7">>},
     datetime |-> {<<"T">>, <<"U">>},
     sender |-> {Undefined, EmptyStr, <<"a">>},
     codepro |-> {<<"f", "a", "l", "s", "e">>, <<"t", "r", "u", "e">>},
     label |-> {Undefined, EmptyStr, <<"a">>}]
SigFields == DOMAIN SigDomain
SigSecrets == {<<"s">>, <<"x">>}

\* the notifications SpecSig starts from, before they are signed
SigBase ==
    [notification_type : {<<"p">>},
     operation_id : {<<"a">>},
     amount : {<<"a", "&", "a">>, Undefined},
     currency : {<<"6">>},
     datetime : {<<"T">>},
     sender : {Undefined},
     codepro : {<<"f", "a", "l", "s", "e">>},
     label : {<<"a">>},
     withdraw_amount : {Undefined}]

\* one call of verifyYooMoneySignature(p), and what was changed before it
SigCall(p, changed) ==
    /\ sig.n < MaxSigCalls
    /\ sig' = [params |-> p, ok |-> verifyYooMoneySignature(p)',
               wasOk |-> sig.ok, changed |-> changed, n |-> sig.n + 1]

SigFrame == UNCHANGED <<YOOMONEY_WALLET, TG_TOKEN, TG_CHAT, orders, resp,
                        tgInFlight, tgLog>>

\* the same notification with one signed field given another value
SigSetField(f, v) ==
    /\ v # sig.params[f]
    /\ YOOMONEY_SECRET' = YOOMONEY_SECRET
    /\ \E p \in {[sig.params EXCEPT ![f] = v]} : SigCall(p, "field")
    /\ SigFrame

\* the same notification checked against another configured secret
SigSetSecret(s) ==
    /\ s # YOOMONEY_SECRET
    /\ YOOMONEY_SECRET' = s
    /\ \E p \in {sig.params} : SigCall(p, "secret")
    /\ SigFrame

\* the same notification with the values of two signed fields exchanged
SigSwapFields(f, g) ==
    /\ sig.params[f] # sig.params[g]
    /\ sig.params[f] \in SigDomain[g] /\ sig.params[g] \in SigDomain[f]
    /\ YOOMONEY_SECRET' = YOOMONEY_SECRET
    /\ \E p \in {[sig.params EXCEPT ![f] = sig.params[g], ![g] = sig.params[f]]} :
           SigCall(p, "swap")
    /\ SigFrame

InitSig ==
    /\ YOOMONEY_WALLET = EmptyStr
    /\ YOOMONEY_SECRET \in SigSecrets
    /\ TG_TOKEN = EmptyStr
    /\ TG_CHAT = EmptyStr
    /\ orders = EmptyMap
    /\ resp = NoResponse
    /\ tgInFlight = 0
    /\ tgLog = "none"
    /\ \E f \in SigBase :
       \E h \in {Undefined, sha1hex(SignatureString(f, ProviderSecret))} :
          sig = [params |-> WithHash(f, h),
                 ok |-> verifyYooMoneySignature(WithHash(f, h)),
                 wasOk |-> FALSE, changed |-> "none", n |-> 0]

NextSig ==
    \/ \E f \in SigFields : \E v \in SigDomain[f] : SigSetField(f, v)
    \/ \E s \in SigSecrets : SigSetSecret(s)
    \/ \E f \in SigFields, g \in SigFields : SigSwapFields(f, g)

SpecSig == InitSig /\ [][NextSig]_vars

(************************ C1: paid only after verification ******************)
\* an order that is paid after the step and was not before it
BecamePaid(l) ==
    /\ MapHas(orders', l) /\ orders'[l].paid
    /\ ~(MapHas(orders, l) /\ orders[l].paid)

\* C1: an order becomes paid only in a yoomoney-notify request, and every
\* notification that makes an order paid passed verifyYooMoneySignature.
C1_PaidOnlyAfterVerification ==
    [][(\E l \in AllLabels : BecamePaid(l)) =>
          /\ resp'.route = NotifyRoute
          /\ \A body \in NotifyBodies :
                YooMoneyNotify(body) => verifyYooMoneySignature(body)]_vars

(************************ C2: bad signature rejected ************************)
\* C2: a notification whose sha1_hash does not verify is answered 400
\* 'bad signature' and leaves the orders table as it was.
C2_BadSignatureRejected ==
    [][resp'.route = NotifyRoute =>
          \A body \in NotifyBodies :
             (~verifyYooMoneySignature(body) /\ YooMoneyNotify(body)) =>
                 /\ resp'.status = 400
                 /\ resp'.body = [text |-> "bad signature"]
                 /\ orders' = orders]_vars

(************************ C3: the signed text *******************************)
\* the nine components the claim lists, in its order, absent ones as ''
C3_Components(p, secret) ==
    <<JoinElem(p.notification_type), JoinElem(p.operation_id), JoinElem(p.amount),
      JoinElem(p.currency), JoinElem(p.datetime), JoinElem(p.sender),
      JoinElem(p.codepro), secret, JoinElem(p.label)>>

C3_Differing(a, b) == {i \in 1..Len(a) : a[i] # b[i]}

\* C3 as stated: once a digest was accepted, the same digest is rejected after
\* any change of the components: of one field, of the secret, or an exchange
\* of two fields.
C3_AnyChangeRejected ==
    [][(/\ sig.ok
        /\ sig'.n = sig.n + 1
        /\ sig'.params.sha1_hash = sig.params.sha1_hash
        /\ C3_Components(sig'.params, YOOMONEY_SECRET')
              # C3_Components(sig.params, YOOMONEY_SECRET))
       => ~sig'.ok]_vars

\* C3 amended: the result is true exactly when sha1_hash is the hash of the
\* nine components joined by '&' in the listed order, and an accepted digest
\* is rejected after a change of exactly one component.
C3_OneChangeRejected ==
    [][sig'.n = sig.n + 1 =>
         /\ sig'.ok <=>
              (sig'.params.sha1_hash =
                  sha1hex(Join(C3_Components(sig'.params, YOOMONEY_SECRET'), <<"&">>)))
         /\ (/\ sig.ok
             /\ sig'.params.sha1_hash = sig.params.sha1_hash
             /\ Cardinality(C3_Differing(C3_Components(sig'.params, YOOMONEY_SECRET'),
                                         C3_Components(sig.params, YOOMONEY_SECRET))) = 1)
            => ~sig'.ok]_vars

\* an accepted digest was rejected after one field changed
C3_Witness ==
    /\ sig # <<>>
    /\ sig.changed = "field" /\ sig.wasOk /\ ~sig.ok

(************************ C4: polling an unpaid order ***********************)
WaitingBody == [amount |-> Zero, message |-> "Waiting for YooMoney confirmation..."]

\* C4: confirm-payment for an order that is in the table and unpaid answers
\* amount 0 and leaves the table as it was.
C4_UnpaidPollIsReadOnly ==
    [][resp'.route = ConfirmRoute =>
          \A id \in AllLabels :
             (MapHas(orders, id) /\ ~orders[id].paid /\ ConfirmPayment(id)) =>
                 /\ resp'.status = 200
                 /\ resp'.body = WaitingBody
                 /\ orders' = orders]_vars

\* an unpaid order was polled and is still in the table, unpaid
C4_Witness ==
    /\ resp.route = ConfirmRoute /\ resp.status = 200 /\ resp.body = WaitingBody
    /\ \E l \in DOMAIN orders : ~orders[l].paid /\ orders[l].amountRub = Fin(2, 0)

(************************ C5: a paid order is read once *********************)
\* C5: confirm-payment for a paid order answers its amountRub and removes it;
\* while the label is not in the table confirm-payment answers 404, and a
\* label comes into the table only through a successful create-payment that
\* returns it.
C5_PaidOrderReadOnce ==
    [][\A id \in AllLabels :
          /\ (MapHas(orders, id) /\ orders[id].paid /\ ConfirmPayment(id)) =>
                /\ resp'.status = 200
                /\ resp'.body = [amount |-> orders[id].amountRub]
                /\ orders' = MapDelete(orders, id)
                /\ ~MapHas(orders', id)
          /\ (~MapHas(orders, id) /\ ConfirmPayment(id)) => resp'.status = 404
          /\ (~MapHas(orders, id) /\ MapHas(orders', id)) =>
                /\ resp'.route = CreateRoute
                /\ resp'.status = 200
                /\ resp'.body.orderId = id]_vars

\* a paid order was confirmed with its amount and others are still in the table
C5_Witness ==
    /\ resp.route = ConfirmRoute /\ resp.status = 200
    /\ DOMAIN resp.body = {"amount"}
    /\ resp.body.amount = Fin(3, 0)
    /\ orders # EmptyMap

(************************ C6: confirm-payment errors ************************)
\* C6: confirm-payment answers 400 when orderId is missing or empty and 404
\* when it is given and is no key of the table; the table is unchanged.
C6_ConfirmErrors ==
    [][resp'.route = ConfirmRoute =>
          \A id \in RequestLabels :
             /\ (~Truthy(id) /\ ConfirmPayment(id)) =>
                   resp'.status = 400 /\ orders' = orders
             /\ (Truthy(id) /\ ~MapHas(orders, id) /\ ConfirmPayment(id)) =>
                   resp'.status = 404 /\ orders' = orders]_vars

\* an unknown order was asked for while the table holds another one
C6_Witness ==
    /\ resp.route = ConfirmRoute /\ resp.status = 404
    /\ orders # EmptyMap

(************************ C7: create-payment ********************************)
\* what the claim expects of each requested amount: the floored amount, or 0
\* for an amount that is refused
C7_Expected(amount) ==
    CASE amount = <<"1">> -> 1
      [] amount = <<"2", ".", "7">> -> 2
      [] OTHER -> 0

\* what C7 says a create-payment step with these inputs did
C7_Outcome(amount, t, rnd) ==
    IF C7_Expected(amount) = 0
    THEN resp'.status = 400 /\ orders' = orders
    ELSE IF YOOMONEY_WALLET = EmptyStr
    THEN resp'.status = 500 /\ orders' = orders
    ELSE /\ resp'.status = 200
         /\ resp'.body.orderId = MkLabel(t, rnd)
         /\ DOMAIN orders' = DOMAIN orders \cup {MkLabel(t, rnd)}
         /\ orders'[MkLabel(t, rnd)] =
               [amountRub |-> Fin(C7_Expected(amount), 0), paid |-> FALSE]
         /\ \A l \in DOMAIN orders \ {MkLabel(t, rnd)} : orders'[l] = orders[l]

\* C7: create-payment answers 400 for an amount below 1 after flooring
\* (missing, non-numeric, zero, negative, 0.5), else 500 when the wallet is not
\* configured, in both cases leaving the table as it was; otherwise it stores
\* one unpaid order with the floored amount under the label it returns.
C7_CreatePayment ==
    [][resp'.route = CreateRoute =>
          \A amount \in CreateAmounts, t \in Times, rnd \in RandomSuffixes :
             C7_Outcome(amount, t, rnd) \/ ~CreatePayment(amount, t, rnd)]_vars

\* an order for 2.7 was created with amount 2 beside another order
C7_Witness ==
    /\ resp.route = CreateRoute /\ resp.status = 200
    /\ MapHas(orders, resp.body.orderId)
    /\ orders[resp.body.orderId] = [amountRub |-> Fin(2, 0), paid |-> FALSE]
    /\ Cardinality(DOMAIN orders) = 2

(************************ C8: labels are unique *****************************)
\* C8: a successful create-payment stores its order under a label that is no
\* key of the table at that moment.
C8_LabelsUnique ==
    [][(resp'.route = CreateRoute /\ resp'.status = 200) =>
          \A amount \in CreateAmounts, t \in Times, rnd \in RandomSuffixes :
             CreatePayment(amount, t, rnd) => ~MapHas(orders, MkLabel(t, rnd))]_vars

(************************ C9: the order lifecycle ***************************)
\* C9: an order in the table never goes from paid back to unpaid, and an order
\* leaves the table only in a confirm-payment request made while it is paid.
C9_LifecycleForward ==
    [][\A l \in DOMAIN orders :
          /\ (orders[l].paid /\ MapHas(orders', l)) => orders'[l].paid
          /\ ~MapHas(orders', l) => (orders[l].paid /\ resp'.route = ConfirmRoute)]_vars

(************************ C10: notify-campaign ******************************)
\* C10: notify-campaign answers {ok: true} once, whatever the Telegram
\* configuration; nothing is sent when the token or the chat id is empty; the
\* completion of a send, whatever its outcome, changes neither the response
\* nor the orders table.
C10_FireAndForget ==
    /\ []((~Truthy(TG_TOKEN) \/ ~Truthy(TG_CHAT)) => tgInFlight = 0)
    /\ [][/\ NotifyCampaign =>
               /\ resp' = [route |-> CampaignRoute, status |-> 200, sent |-> 1,
                           body |-> [ok |-> TRUE]]
               /\ orders' = orders
          /\ (TgSentOK \/ TgErrorStatus \/ TgRequestFailed) =>
               /\ resp' = resp
               /\ orders' = orders]_vars

\* the campaign was answered, then its send failed, with orders in the table
C10_Witness ==
    /\ resp.route = CampaignRoute /\ resp.status = 200 /\ resp.sent = 1
    /\ tgLog = "Telegram request failed"
    /\ tgInFlight = 0
    /\ \E l \in DOMAIN orders : orders[l].paid

(************************ C11: acknowledged, nothing changed ****************)
\* the notification gets past the signature step: no secret is configured,
\* or its sha1_hash verifies
PassesSignatureStep(body) ==
    ~Truthy(YOOMONEY_SECRET) \/ verifyYooMoneySignature(body)

\* C11: a notification that passes the signature step and is protected
\* (codepro 'true'), or names no order of the table (label missing, empty or
\* unknown), is answered 200 'OK' and leaves the table as it is.
C11_AcknowledgedUnchanged ==
    \A body \in NotifyBodies :
       (/\ PassesSignatureStep(body)
        /\ \/ body.codepro = <<"t", "r", "u", "e">>
           \/ ~Truthy(body.label)
           \/ ~MapHas(orders, body.label))
       => /\ NotifyOutcome(body).resp =
                [route |-> NotifyRoute, status |-> 200, sent |-> 1,
                 body |-> [text |-> "OK"]]
          /\ NotifyOutcome(body).orders = orders

\* with a secret configured a notification was acknowledged and the two
\* orders of the table are still unpaid
C11_Witness ==
    /\ Truthy(YOOMONEY_SECRET)
    /\ resp.route = NotifyRoute /\ resp.status = 200
    /\ Cardinality(DOMAIN orders) = 2
    /\ \A l \in DOMAIN orders : ~orders[l].paid

(************************ C12: what a notification stores *******************)
\* the notification is accepted, not protected, and names an order of the table
C12_Applies(body) ==
    /\ PassesSignatureStep(body)
    /\ body.codepro # <<"t", "r", "u", "e">>
    /\ Truthy(body.label)
    /\ MapHas(orders, body.label)

\* floor(a) for the bodies sent here: a is withdraw_amount when that is a
\* non-zero number ('0.5', '3', '-5'), otherwise amount when that is one
\* ('2.7'), otherwise 0
C12_FloorA(body) ==
    CASE body.withdraw_amount = <<"0", ".", "5">> -> 0
      [] body.withdraw_amount = <<"3">> -> 3
      [] body.withdraw_amount = <<"-", "5">> -> -5
      [] body.amount = <<"2", ".", "7">> -> 2
      [] OTHER -> 0

\* the amounts a create-payment request can have asked for
RequestedAmounts == {Fin(C7_Expected(a), 0) : a \in CreateAmounts} \ {Zero}

\* the table after the notification: same labels, the named order paid with
\* the given amount, every other order as before
C12_Stored(body, after, kept) ==
    /\ DOMAIN after = DOMAIN orders
    /\ after[body.label].paid
    /\ after[body.label].amountRub =
          IF C12_FloorA(body) # 0 THEN Fin(C12_FloorA(body), 0) ELSE kept
    /\ \A l \in DOMAIN orders : l # body.label => after[l] = orders[l]

\* C12 as stated: the named order becomes paid with amountRub floor(a), and
\* when floor(a) is 0 its amountRub is the amount requested at create-payment
\* (here: some amount a create-payment request can ask for).
C12_KeepsRequestedAmount ==
    \A body \in NotifyBodies :
       C12_Applies(body) =>
          /\ C12_Stored(body, NotifyOutcome(body).orders,
                        NotifyOutcome(body).orders[body.label].amountRub)
          /\ C12_FloorA(body) = 0 =>
                NotifyOutcome(body).orders[body.label].amountRub \in RequestedAmounts

\* C12, amended: the named order becomes paid with amountRub floor(a), and
\* when floor(a) is 0 its amountRub stays what it was when the notification
\* arrived; no other order changes.
C12_KeepsCurrentAmount ==
    \A body \in NotifyBodies :
       C12_Applies(body) =>
          C12_Stored(body, NotifyOutcome(body).orders, orders[body.label].amountRub)

\* a notification was accepted and of the two orders one is paid with the
\* withdraw_amount 3 and the other still waits
C12_Witness ==
    /\ resp.route = NotifyRoute /\ resp.status = 200
    /\ \E l1, l2 \in DOMAIN orders :
          /\ orders[l1] = [amountRub |-> Fin(3, 0), paid |-> TRUE]
          /\ ~orders[l2].paid

(************************ C13: amounts are at least 1 ************************)
\* C13: every order in the table has an integer amountRub of at least 1.
C13_AmountsAtLeastOne ==
    \A l \in DOMAIN orders :
       /\ orders[l].amountRub.k = "fin"
       /\ orders[l].amountRub.d = 0
       /\ orders[l].amountRub.m >= 1

(************************ C14: credited at most once ************************)
\* the response of the step is a confirm-payment answer with a non-zero amount
Credited ==
    /\ resp'.route = ConfirmRoute
    /\ resp'.status = 200
    /\ resp'.body.amount # Zero

\* C14: every handler is one step on the table, and in every step: a
\* confirm-payment answer with a non-zero amount is given for an order that is
\* in the table and paid, and that same step removes it; any other
\* confirm-payment answer and every notification leave the set of labels as it
\* is; a label that is not in the table comes into it only through a
\* successful create-payment that returns it. So between two non-zero answers
\* for a label lies a create-payment for it, and a notification after the
\* removal does not bring the order back.
C14_CreditedAtMostOnce ==
    [][/\ Credited =>
             \E id \in DOMAIN orders :
                /\ orders[id].paid
                /\ resp'.body.amount = orders[id].amountRub
                /\ orders' = MapDelete(orders, id)
                /\ ~MapHas(orders', id)
       /\ (resp'.route = ConfirmRoute /\ ~Credited) => orders' = orders
       /\ resp'.route = NotifyRoute => DOMAIN orders' = DOMAIN orders
       /\ \A id \in AllLabels :
             (~MapHas(orders, id) /\ MapHas(orders', id)) =>
                /\ resp'.route = CreateRoute
                /\ resp'.status = 200
                /\ resp'.body.orderId = id]_vars

\* the only order of the table was confirmed with amount 2 and is gone
C14_Witness ==
    /\ resp.route = ConfirmRoute /\ resp.status = 200
    /\ resp.body = [amount |-> Fin(2, 0)]
    /\ orders = EmptyMap

====
